---------------------------- MODULE Spec2Model ----------------------------
(***************************************************************************)
(* A model of generate_catalog.py, the SeaTable static catalog generator.  *)
(*                                                                         *)
(* Python strings are modelled as sequences of one-character strings, so   *)
(* that substring tests, percent-decoding, path parsing and the text of    *)
(* the generated document are computed character by character, the way     *)
(* the program computes them.                                              *)
(***************************************************************************)
EXTENDS Integers, Sequences, FiniteSets, TLC

(***************************************************************************)
(* Bounds of the model.                                                    *)
(***************************************************************************)
MaxRows == 2
MaxEncoded == 1
MaxCols == 2
MaxChunks == 2

(***************************************************************************)
(* Configuration (module-level constants of the program).                  *)
(***************************************************************************)
TABLE_NAME == <<"W", "o", "r", "k", "s", " ", "&", " ", "E", "x", "h", "i", "b", "i", "t", "s">>

(***************************************************************************)
(* Characters.                                                             *)
(***************************************************************************)
Ord ==
    (" " :> 32) @@ ("!" :> 33) @@ ("\"" :> 34) @@ ("#" :> 35) @@ ("$" :> 36) @@ ("%" :> 37) @@
    ("&" :> 38) @@ ("'" :> 39) @@ ("(" :> 40) @@ (")" :> 41) @@ ("*" :> 42) @@ ("+" :> 43) @@
    ("," :> 44) @@ ("-" :> 45) @@ ("." :> 46) @@ ("/" :> 47) @@ ("0" :> 48) @@ ("1" :> 49) @@
    ("2" :> 50) @@ ("3" :> 51) @@ ("4" :> 52) @@ ("5" :> 53) @@ ("6" :> 54) @@ ("7" :> 55) @@
    ("8" :> 56) @@ ("9" :> 57) @@ (":" :> 58) @@ (";" :> 59) @@ ("<" :> 60) @@ ("=" :> 61) @@
    (">" :> 62) @@ ("?" :> 63) @@ ("@" :> 64) @@ ("A" :> 65) @@ ("B" :> 66) @@ ("C" :> 67) @@
    ("D" :> 68) @@ ("E" :> 69) @@ ("F" :> 70) @@ ("G" :> 71) @@ ("H" :> 72) @@ ("I" :> 73) @@
    ("J" :> 74) @@ ("K" :> 75) @@ ("L" :> 76) @@ ("M" :> 77) @@ ("N" :> 78) @@ ("O" :> 79) @@
    ("P" :> 80) @@ ("Q" :> 81) @@ ("R" :> 82) @@ ("S" :> 83) @@ ("T" :> 84) @@ ("U" :> 85) @@
    ("V" :> 86) @@ ("W" :> 87) @@ ("X" :> 88) @@ ("Y" :> 89) @@ ("Z" :> 90) @@ ("[" :> 91) @@
    ("\\" :> 92) @@ ("]" :> 93) @@ ("^" :> 94) @@ ("_" :> 95) @@ ("a" :> 97) @@
    ("b" :> 98) @@ ("c" :> 99) @@ ("d" :> 100) @@ ("e" :> 101) @@ ("f" :> 102) @@ ("g" :> 103) @@
    ("h" :> 104) @@ ("i" :> 105) @@ ("j" :> 106) @@ ("k" :> 107) @@ ("l" :> 108) @@ ("m" :> 109) @@
    ("n" :> 110) @@ ("o" :> 111) @@ ("p" :> 112) @@ ("q" :> 113) @@ ("r" :> 114) @@ ("s" :> 115) @@
    ("t" :> 116) @@ ("u" :> 117) @@ ("v" :> 118) @@ ("w" :> 119) @@ ("x" :> 120) @@ ("y" :> 121) @@
    ("z" :> 122) @@ ("{" :> 123) @@ ("|" :> 124) @@ ("}" :> 125) @@ ("~" :> 126)

Chr(n) == CHOOSE c \in DOMAIN Ord : Ord[c] = n

IsUpper(c) == Ord[c] >= 65 /\ Ord[c] <= 90
IsAlpha(c) == IsUpper(c) \/ (Ord[c] >= 97 /\ Ord[c] <= 122)
IsDigit(c) == Ord[c] >= 48 /\ Ord[c] <= 57

\* str.lower()
Lower(s) == [k \in 1..Len(s) |-> IF IsUpper(s[k]) THEN Chr(Ord[s[k]] + 32) ELSE s[k]]

\* sub in s
Contains(sub, s) ==
    \E k \in 0..(Len(s) - Len(sub)) : SubSeq(s, k + 1, k + Len(sub)) = sub

\* s.find(c): the first index of character c in s, 0 when absent
Find(c, s) ==
    IF \E k \in 1..Len(s) : s[k] = c
    THEN CHOOSE k \in 1..Len(s) : s[k] = c /\ \A j \in 1..(k - 1) : s[j] # c
    ELSE 0

\* s.rfind(c): the last index of character c in s, 0 when absent
RFind(c, s) ==
    IF \E k \in 1..Len(s) : s[k] = c
    THEN CHOOSE k \in 1..Len(s) : s[k] = c /\ \A j \in (k + 1)..Len(s) : s[j] # c
    ELSE 0

\* s.find(sub) for a substring: the first index where sub starts, 0 when absent
FindSub(sub, s) ==
    IF Contains(sub, s)
    THEN CHOOSE k \in 1..(Len(s) - Len(sub) + 1) :
            /\ SubSeq(s, k, k + Len(sub) - 1) = sub
            /\ \A j \in 1..(k - 1) : SubSeq(s, j, j + Len(sub) - 1) # sub
    ELSE 0

Tail_(s, k) == SubSeq(s, k, Len(s))

RECURSIVE Concat(_)
Concat(ss) == IF ss = <<>> THEN <<>> ELSE Head(ss) \o Concat(Tail(ss))

\* s.split(c) for a one-character separator
RECURSIVE Split(_, _)
Split(s, c) ==
    LET k == Find(c, s)
    IN  IF k = 0 THEN <<s>>
        ELSE <<SubSeq(s, 1, k - 1)>> \o Split(Tail_(s, k + 1), c)

(***************************************************************************)
(* urllib.parse.urlparse(image_url).path                                   *)
(***************************************************************************)
SchemeChar(c) == IsAlpha(c) \/ IsDigit(c) \/ c \in {"+", "-", "."}

\* the url with its scheme removed
AfterScheme(url) ==
    LET k == Find(":", url)
    IN  IF /\ k > 1
           /\ IsAlpha(url[1])
           /\ \A j \in 1..(k - 1) : SchemeChar(url[j])
        THEN Tail_(url, k + 1)
        ELSE url

\* the url with its network location removed
AfterNetloc(u) ==
    IF Len(u) >= 2 /\ SubSeq(u, 1, 2) = <<"/", "/">>
    THEN LET rest == Tail_(u, 3)
             ends == {k \in 1..Len(rest) : rest[k] \in {"/", "?", "#"}}
         IN  IF ends = {} THEN <<>>
             ELSE Tail_(rest, CHOOSE k \in ends : \A j \in ends : k <= j)
    ELSE u

UpTo(c, u) == IF Find(c, u) = 0 THEN u ELSE SubSeq(u, 1, Find(c, u) - 1)

\* the ;parameters of the last path segment are not part of the path
SplitParams(u) ==
    LET slash == RFind("/", u)
        from  == IF slash = 0 THEN 1 ELSE slash
        semis == {k \in from..Len(u) : u[k] = ";"}
    IN  IF semis = {} THEN u
        ELSE SubSeq(u, 1, (CHOOSE k \in semis : \A j \in semis : k <= j) - 1)

UrlParsePath(url) == SplitParams(UpTo("?", UpTo("#", AfterNetloc(AfterScheme(url)))))

(***************************************************************************)
(* urllib.parse.unquote                                                    *)
(***************************************************************************)
HexDigits == <<"0", "1", "2", "3", "4", "5", "6", "7", "8", "9", "a", "b", "c", "d", "e", "f">>

IsHex(c) == IsDigit(c) \/ c \in {"a", "b", "c", "d", "e", "f", "A", "B", "C", "D", "E", "F"}

HexVal(c) ==
    IF IsDigit(c) THEN Ord[c] - 48
    ELSE IF IsUpper(c) THEN Ord[c] - 55
    ELSE Ord[c] - 87

\* every %XX escape becomes the character with that code, in one pass; an
\* escape that is not two hex digits, or names no printable character, stays
RECURSIVE Unquote(_)
Unquote(s) ==
    IF s = <<>> THEN <<>>
    ELSE IF /\ s[1] = "%"
            /\ Len(s) >= 3
            /\ IsHex(s[2]) /\ IsHex(s[3])
            /\ \E c \in DOMAIN Ord : Ord[c] = 16 * HexVal(s[2]) + HexVal(s[3])
         THEN <<Chr(16 * HexVal(s[2]) + HexVal(s[3]))>> \o Unquote(Tail_(s, 4))
         ELSE <<s[1]>> \o Unquote(Tail(s))

(***************************************************************************)
(* pathlib.Path(path).name and .suffix                                     *)
(***************************************************************************)
PathParts(path) == SelectSeq(Split(path, "/"), LAMBDA p : p # <<>> /\ p # <<".">>)

PathName(path) ==
    LET parts == PathParts(path)
    IN  IF parts = <<>> THEN <<>> ELSE parts[Len(parts)]

PathSuffix(filename) ==
    LET name == PathName(filename)
        k    == RFind(".", name)
    IN  IF 1 < k /\ k < Len(name) THEN Tail_(name, k) ELSE <<>>

(***************************************************************************)
(* hashlib.md5(path.encode()).hexdigest()                                  *)
(*                                                                         *)
(* MD5 is represented by a 32-digit hexadecimal digest in which every      *)
(* digit is a rolling checksum of all the characters of the input.         *)
(***************************************************************************)
RECURSIVE Roll(_, _)
Roll(s, h) ==
    IF s = <<>> THEN h ELSE Roll(Tail(s), (h * h + 31 * Ord[Head(s)] + 7) % 32749)

Md5HexDigest(s) == [k \in 1..32 |-> HexDigits[(Roll(s, k) % 16) + 1]]

(***************************************************************************)
(* get_image_filename                                                      *)
(***************************************************************************)
GetImageFilenameRawHash(image_url) ==
    LET path == Unquote(UrlParsePath(image_url))
        original_filename == PathName(path)
        extension == PathSuffix(original_filename)
        path_hash == SubSeq(Md5HexDigest(UrlParsePath(image_url)), 1, 12)
    IN  path_hash \o extension

GetImageFilename(image_url) ==
    LET path == Unquote(UrlParsePath(image_url))
        original_filename == PathName(path)
        extension == PathSuffix(original_filename)
        path_hash == SubSeq(Md5HexDigest(path), 1, 12)
    IN  path_hash \o extension

(***************************************************************************)
(* Values of a record: a string, a list of strings, or None.  A record     *)
(* (a Python dict) is the sequence of its <<key, value>> items in order.   *)
(***************************************************************************)
Str(s) == [t |-> "str", v |-> s]
List(l) == [t |-> "list", v |-> l]
None == [t |-> "none", v |-> <<>>]

\* the truth value Python gives a value in if value: and not value
Truthy(value) == value.t # "none" /\ value.v # <<>>

\* row.get(key, default)
RowGet(row, key, default) ==
    IF \E k \in 1..Len(row) : row[k][1] = key
    THEN row[CHOOSE k \in 1..Len(row) : row[k][1] = key][2]
    ELSE default

(***************************************************************************)
(* download_image                                                          *)
(*                                                                         *)
(* files is the content of the images directory: a function from the       *)
(* names of the files that exist to their contents.  net is what the       *)
(* network does during the call: the download-link exchange fails, the     *)
(* fetch of the direct URL fails, or the body has total chunks of which  *)
(* delivered arrive before the stream ends or breaks.                    *)
(* The result names the return value or the exception raised, the files    *)
(* afterwards and the requests sent.                                       *)
(***************************************************************************)
NetBehaviours ==
    {[kind |-> "link_fail", total |-> 0, delivered |-> 0],
     [kind |-> "fetch_fail", total |-> 0, delivered |-> 0]}
    \cup {b \in [kind : {"stream"}, total : 0..MaxChunks, delivered : 0..MaxChunks] :
              b.delivered <= b.total}

\* s.split(sep) for a separator of several characters
RECURSIVE SplitStr(_, _)
SplitStr(s, sep) ==
    LET k == FindSub(sep, s)
    IN  IF k = 0 THEN <<s>>
        ELSE <<SubSeq(s, 1, k - 1)>> \o SplitStr(Tail_(s, k + Len(sep)), sep)

FileWith(files, name, content) ==
    [f \in DOMAIN files \cup {name} |-> IF f = name THEN content ELSE files[f]]

DownloadImageNoSkip(image_url, output_path, files, net) ==
    LET path  == Unquote(UrlParsePath(image_url))
        parts == SplitStr(path, <<"/", "a", "s", "s", "e", "t", "/">>)
        link  == [api |-> "app-download-link", path |-> parts[2]]
        fetch == [api |-> "download", path |-> parts[2]]
    IN  IF Len(parts) < 2
        THEN [result |-> "IndexError", files |-> files, requests |-> <<>>]
        ELSE IF net.kind = "link_fail"
        THEN [result |-> "HTTPError", files |-> files, requests |-> <<link>>]
        ELSE IF net.kind = "fetch_fail"
        THEN [result |-> "HTTPError", files |-> files, requests |-> <<link, fetch>>]
        ELSE [result |-> IF net.delivered = net.total THEN "True" ELSE "ConnectionError",
              files |-> FileWith(files, output_path,
                                 [asset |-> parts[2], chunks |-> net.delivered]),
              requests |-> <<link, fetch>>]

DownloadImage(image_url, output_path, files, net) ==
    IF output_path \in DOMAIN files
    THEN [result |-> "True", files |-> files, requests |-> <<>>]
    ELSE LET path  == Unquote(UrlParsePath(image_url))
             parts == SplitStr(path, <<"/", "a", "s", "s", "e", "t", "/">>)
             link  == [api |-> "app-download-link", path |-> parts[2]]
             fetch == [api |-> "download", path |-> parts[2]]
         IN  IF Len(parts) < 2
             THEN [result |-> "IndexError", files |-> files, requests |-> <<>>]
             ELSE IF net.kind = "link_fail"
             THEN [result |-> "HTTPError", files |-> files, requests |-> <<link>>]
             ELSE IF net.kind = "fetch_fail"
             THEN [result |-> "HTTPError", files |-> files, requests |-> <<link, fetch>>]
             ELSE [result |-> IF net.delivered = net.total THEN "True"
                              ELSE "ConnectionError",
                   files |-> FileWith(files, output_path,
                                      [asset |-> parts[2], chunks |-> net.delivered]),
                   requests |-> <<link, fetch>>]

(***************************************************************************)
(* find_image_column: the name of the first column of type image, or None  *)
(***************************************************************************)
NoColumn == <<>>

FindImageColumnAnyType(columns) ==
    IF columns = <<>> THEN NoColumn ELSE columns[1].name

FindImageColumn(columns) ==
    LET hits == {k \in 1..Len(columns) : columns[k].type = "image"}
    IN  IF hits = {} THEN NoColumn
        ELSE columns[CHOOSE k \in hits : \A j \in hits : k <= j].name

(***************************************************************************)
(* generate_html                                                           *)
(*                                                                         *)
(* The text is the program text, without the indentation and line breaks and  *)
(* without the <meta> and <style> elements of the head.                    *)
(***************************************************************************)
HtmlHead ==
    <<"<", "!", "D", "O", "C", "T", "Y", "P", "E", " ", "h", "t", "m", "l", ">", "<", "h", "t", "m", "l", " ", "l", "a", "n", "g", "=", "\"", "e", "n", "\"", ">", "<", "h", "e", "a", "d", ">", "<", "t", "i", "t", "l", "e", ">", "A", "r", "t", "w", "o", "r", "k", " ", "C", "a", "t", "a", "l", "o", "g", "<", "/", "t", "i", "t", "l", "e", ">", "<", "/", "h", "e", "a", "d", ">">>
    \o <<"<", "b", "o", "d", "y", ">", "<", "d", "i", "v", " ", "c", "l", "a", "s", "s", "=", "\"", "c", "o", "n", "t", "a", "i", "n", "e", "r", "\"", ">", "<", "h", "1", ">", "A", "r", "t", "w", "o", "r", "k", " ", "C", "a", "t", "a", "l", "o", "g", "<", "/", "h", "1", ">", "<", "d", "i", "v", " ", "c", "l", "a", "s", "s", "=", "\"", "g", "r", "i", "d", "\"", ">">>

HtmlFoot == <<"<", "/", "d", "i", "v", ">", "<", "/", "d", "i", "v", ">", "<", "/", "b", "o", "d", "y", ">", "<", "/", "h", "t", "m", "l", ">">>

CardOpen == <<"<", "d", "i", "v", " ", "c", "l", "a", "s", "s", "=", "\"", "a", "r", "t", "w", "o", "r", "k", "-", "c", "a", "r", "d", "\"", ">">>

\* images[0] if isinstance(images, list) else images
FirstImage(images) == IF images.t = "list" THEN images.v[1] ELSE images.v

\* str(value), for the f-strings
Text(value) == IF value.t = "str" THEN value.v ELSE <<"N", "o", "n", "e">>

NoFields ==
    [title |-> None, inventory |-> None, series |-> None, year |-> None,
     edition |-> None]

\* the body of for key, value in row.items(), for one item
ExtractItem(acc, key, value) ==
    LET key_lower == Lower(key)
    IN  IF ~Truthy(value) THEN acc
        ELSE IF Contains(<<"t", "i", "t", "l", "e">>, key_lower) \/ Contains(<<"n", "a", "m", "e">>, key_lower)
        THEN [acc EXCEPT !.title = value]
        ELSE IF Contains(<<"i", "n", "v", "e", "n", "t", "o", "r", "y">>, key_lower) \/ Contains(<<"i", "n", "v">>, key_lower)
        THEN [acc EXCEPT !.inventory = value]
        ELSE IF Contains(<<"c", "o", "l", "l", "e", "c", "t", "i", "o", "n">>, key_lower) \/ Contains(<<"s", "e", "r", "i", "e", "s">>, key_lower)
        THEN [acc EXCEPT !.series = value]
        ELSE IF Contains(<<"y", "e", "a", "r">>, key_lower) \/ Contains(<<"d", "a", "t", "e">>, key_lower)
        THEN [acc EXCEPT !.year =
                 IF Contains(<<"-">>, Text(value))
                 THEN Str(Split(Text(value), "-")[1])
                 ELSE value]
        ELSE IF Contains(<<"e", "d", "i", "t", "i", "o", "n">>, key_lower) /\ ~Contains(<<"d", "e", "s", "c">>, key_lower)
        THEN [acc EXCEPT !.edition = value]
        ELSE acc

RECURSIVE ExtractFields(_, _)
ExtractFields(items, acc) ==
    IF items = <<>> THEN acc
    ELSE ExtractFields(Tail(items), ExtractItem(acc, Head(items)[1], Head(items)[2]))

\* the card of one row that has an image
CardHtml(row, image_column) ==
    LET images == RowGet(row, image_column, List(<<>>))
        image_filename == GetImageFilename(FirstImage(images))
        f == ExtractFields(row, NoFields)
        title == IF Truthy(f.title) THEN f.title ELSE Str(<<"U", "n", "t", "i", "t", "l", "e", "d">>)
    IN  CardOpen \o <<"<", "d", "i", "v", " ", "c", "l", "a", "s", "s", "=", "\"", "a", "r", "t", "w", "o", "r", "k", "-", "i", "m", "a", "g", "e", "\"", ">", "<", "i", "m", "g", " ", "s", "r", "c", "=", "\"", "i", "m", "a", "g", "e", "s", "/">>
        \o image_filename \o <<"\"", " ", "a", "l", "t", "=", "\"">> \o Text(title) \o <<"\"", ">", "<", "/", "d", "i", "v", ">">>
        \o <<"<", "d", "i", "v", " ", "c", "l", "a", "s", "s", "=", "\"", "a", "r", "t", "w", "o", "r", "k", "-", "i", "n", "f", "o", "\"", ">", "<", "d", "i", "v", " ", "c", "l", "a", "s", "s", "=", "\"", "a", "r", "t", "w", "o", "r", "k", "-", "t", "i", "t", "l", "e", "\"", ">">>
        \o Text(title) \o <<"<", "/", "d", "i", "v", ">", "<", "d", "i", "v", " ", "c", "l", "a", "s", "s", "=", "\"", "a", "r", "t", "w", "o", "r", "k", "-", "m", "e", "t", "a", "\"", ">">>
        \o (IF Truthy(f.inventory)
            THEN <<"<", "d", "i", "v", " ", "c", "l", "a", "s", "s", "=", "\"", "i", "n", "v", "-", "n", "u", "m", "b", "e", "r", "\"", ">">> \o Text(f.inventory) \o <<"<", "/", "d", "i", "v", ">">>
            ELSE <<>>)
        \o (IF Truthy(f.series)
            THEN <<"<", "d", "i", "v", ">", "<", "s", "t", "r", "o", "n", "g", ">", "S", "e", "r", "i", "e", "s", ":", "<", "/", "s", "t", "r", "o", "n", "g", ">", " ">> \o Text(f.series) \o <<"<", "/", "d", "i", "v", ">">>
            ELSE <<>>)
        \o (IF Truthy(f.year)
            THEN <<"<", "d", "i", "v", ">", "<", "s", "t", "r", "o", "n", "g", ">", "Y", "e", "a", "r", ":", "<", "/", "s", "t", "r", "o", "n", "g", ">", " ">> \o Text(f.year) \o <<"<", "/", "d", "i", "v", ">">>
            ELSE <<>>)
        \o (IF Truthy(f.edition)
            THEN <<"<", "d", "i", "v", ">", "<", "s", "t", "r", "o", "n", "g", ">", "E", "d", "i", "t", "i", "o", "n", ":", "<", "/", "s", "t", "r", "o", "n", "g", ">", " ">> \o Text(f.edition) \o <<"<", "/", "d", "i", "v", ">">>
            ELSE <<>>)
        \o <<"<", "/", "d", "i", "v", ">", "<", "/", "d", "i", "v", ">", "<", "/", "d", "i", "v", ">">>

\* if not images: continue of generate_html
RenderSkips(row, image_column) == ~Truthy(RowGet(row, image_column, List(<<>>)))

RECURSIVE Cards(_, _)
Cards(rows, image_column) ==
    IF rows = <<>> THEN <<>>
    ELSE (IF RenderSkips(Head(rows), image_column) THEN <<>>
          ELSE CardHtml(Head(rows), image_column))
         \o Cards(Tail(rows), image_column)

GenerateHtml(rows, image_column, columns) ==
    HtmlHead \o Cards(rows, image_column) \o HtmlFoot

(***************************************************************************)
(* main                                                                    *)
(***************************************************************************)
VARIABLES
    pc,            \* the position of the run
    outcome,       \* how the run ended: "complete", "no_image_column", or the exception
    exitStatus,    \* the exit status of the process
    requests,      \* the requests sent to the service, in order
    schema,        \* metadata["tables"]
    image_column,
    rows,
    i,             \* the index of the download loop
    attempts,      \* the calls of download_image made by the loop
    files,         \* the files of IMAGES_DIR
    html,          \* the document rendered in memory
    doc,           \* HTML_FILE
    doc0,          \* HTML_FILE as the run found it
    docWrites,     \* the number of writes of HTML_FILE
    prevCall, lastCall,          \* the last two calls of download_image
    decoded,                     \* a decoded path
    refA, refB, nameA, nameB     \* two references to it and their filenames

vars ==
    <<pc, outcome, exitStatus, requests, schema, image_column, rows, i, attempts,
      files, html, doc, doc0, docWrites, prevCall, lastCall, decoded, refA, refB, nameA, nameB>>

EmptyDir == [f \in {} |-> 0]
NoDoc == [exists |-> FALSE, text |-> <<>>]
NoCall == [url |-> <<>>, target |-> <<>>, result |-> "none", requests |-> <<>>,
           existed |-> FALSE, file |-> [asset |-> <<>>, chunks |-> -1]]
NoFile == [asset |-> <<>>, chunks |-> -1]

(***************************************************************************)
(* The references, records and schemas the runs are checked with.          *)
(***************************************************************************)
Ref1 == <<"h", "t", "t", "p", "s", ":", "/", "/", "h", ".", "i", "o", "/", "a", "s", "s", "e", "t", "/", "u", "/", "p", ".", "J", "P", "G">>
Ref2 == <<"h", "t", "t", "p", "s", ":", "/", "/", "h", ".", "i", "o", "/", "a", "s", "s", "e", "t", "/", "u", "/", "p", "%", "2", "E", "J", "P", "G", "?", "v", "=", "2">>
Ref3 == <<"h", "t", "t", "p", "s", ":", "/", "/", "h", ".", "i", "o", "/", "f", "i", "l", "e", "s", "/", "q", ".", "p", "n", "g">>
Refs == {Ref1, Ref2, Ref3}

ImageCol == <<"I", "m", "a", "g", "e">>
NameItem == <<<<"N", "a", "m", "e">>, Str(<<"S", "u", "n">>)>>

ImageValues ==
    {None, List(<<>>), Str(<<>>), List(<<Ref1>>), Str(Ref1), List(<<Ref2, Ref1>>),
     List(<<Ref3>>)}

MainRows == {<<NameItem>>} \cup {<<NameItem, <<ImageCol, v>> >> : v \in ImageValues}

RowLists == UNION {[1..n -> MainRows] : n \in 0..MaxRows}

Col(name, type) == [name |-> name, type |-> type]

Schemas ==
    {<<[name |-> TABLE_NAME,
        columns |-> <<Col(<<"N", "a", "m", "e">>, "text"), Col(ImageCol, "image")>>]>>,
     <<[name |-> <<"O", "t", "h", "e", "r">>, columns |-> <<Col(<<"P", "i", "c">>, "image")>>],
       [name |-> TABLE_NAME,
        columns |-> <<Col(<<"N", "a", "m", "e">>, "text"), Col(<<"S", "c", "a", "n">>, "file"),
                      Col(ImageCol, "image"), Col(<<"D", "e", "t", "a", "i", "l">>, "image")>>]>>,
     <<[name |-> TABLE_NAME,
        columns |-> <<Col(<<"N", "a", "m", "e">>, "text"), Col(<<"N", "o", "t", "e", "s">>, "long-text")>>]>>,
     <<[name |-> <<"O", "t", "h", "e", "r">>, columns |-> <<Col(ImageCol, "image")>>]>>,
     <<>>}

\* a document and an image left by an earlier completed run
PrevDoc ==
    [exists |-> TRUE,
     text |-> GenerateHtml(<< <<NameItem, <<ImageCol, List(<<Ref1>>)>> >> >>, ImageCol, <<>>)]

PrevFiles ==
    FileWith(EmptyDir, GetImageFilename(Ref1), [asset |-> <<"u", "/", "p", ".", "J", "P", "G">>, chunks |-> 1])

Init ==
    /\ pc = "start"
    /\ outcome = "" /\ exitStatus = -1
    /\ requests = <<>>
    /\ schema = <<>> /\ image_column = NoColumn
    /\ rows = <<>> /\ i = 0 /\ attempts = <<>>
    /\ html = <<>>
    /\ \/ files = EmptyDir /\ doc = NoDoc
       \/ files = PrevFiles /\ doc = PrevDoc
    /\ doc0 = doc
    /\ docWrites = 0
    /\ prevCall = NoCall /\ lastCall = NoCall
    /\ decoded = <<>> /\ refA = <<>> /\ refB = <<>> /\ nameA = <<>> /\ nameB = <<>>

Req(api) == [api |-> api, path |-> <<>>]

\* an exception nothing catches ends the process
Raise(exception) ==
    /\ pc' = "aborted"
    /\ outcome' = exception
    /\ exitStatus' = 1

\* get_base_token(API_TOKEN)
Authenticate ==
    /\ pc = "start"
    /\ requests' = Append(requests, Req("app-access-token"))
    /\ \/ pc' = "authenticated" /\ UNCHANGED <<outcome, exitStatus>>
       \/ Raise("HTTPError")
    /\ UNCHANGED <<schema, image_column, rows, i, attempts, files, html, doc, doc0,
                   docWrites, prevCall, lastCall, decoded, refA, refB, nameA, nameB>>

\* get_metadata(base_token, base_uuid)
LoadMetadata ==
    /\ pc = "authenticated"
    /\ requests' = Append(requests, Req("metadata"))
    /\ \/ /\ \E s \in Schemas : schema' = s
          /\ pc' = "metadata"
          /\ UNCHANGED <<outcome, exitStatus>>
       \/ Raise("HTTPError") /\ UNCHANGED schema
    /\ UNCHANGED <<image_column, rows, i, attempts, files, html, doc, doc0,
                   docWrites, prevCall, lastCall, decoded, refA, refB, nameA, nameB>>

\* the indexes of the tables main may select
Candidates(tables) ==
    IF TABLE_NAME = <<>> THEN {k \in 1..Len(tables) : k = 1}
    ELSE {k \in 1..Len(tables) : tables[k].name = TABLE_NAME}

SelectedTable(tables) ==
    tables[CHOOSE k \in Candidates(tables) : \A j \in Candidates(tables) : k <= j]

\* the columns main passes to generate_html.  The list of excluded types is
\* closed by a parenthesis in the source, ["image", "file", "long-text")],
\* which Python rejects when it loads the file; it is read here as the
\* list of the three types.
AllColumns(table) ==
    SelectSeq(table.columns, LAMBDA col : col.type \notin {"image", "file", "long-text"})

\* table selection and find_image_column
SelectTable ==
    /\ pc = "metadata"
    /\ IF Candidates(schema) = {}
       THEN /\ Raise(IF TABLE_NAME = <<>> THEN "IndexError" ELSE "StopIteration")
            /\ UNCHANGED image_column
       ELSE LET found == FindImageColumn(SelectedTable(schema).columns)
            IN  IF found = NoColumn
                THEN /\ pc' = "returned"
                     /\ outcome' = "no_image_column"
                     /\ exitStatus' = 0
                     /\ UNCHANGED image_column
                ELSE /\ pc' = "selected"
                     /\ image_column' = found
                     /\ UNCHANGED <<outcome, exitStatus>>
    /\ UNCHANGED <<requests, schema, rows, i, attempts, files, html, doc, doc0,
                   docWrites, prevCall, lastCall, decoded, refA, refB, nameA, nameB>>

\* get_rows(base_token, base_uuid, table["name"], VIEW_NAME)
GetRows ==
    /\ pc = "selected"
    /\ requests' = Append(requests, Req("rows"))
    /\ \/ /\ \E rs \in RowLists : rows' = rs
          /\ i' = 1
          /\ pc' = "downloading"
          /\ UNCHANGED <<outcome, exitStatus>>
       \/ Raise("HTTPError") /\ UNCHANGED <<rows, i>>
    /\ UNCHANGED <<schema, image_column, attempts, files, html, doc, doc0,
                   docWrites, prevCall, lastCall, decoded, refA, refB, nameA, nameB>>

\* if not images: continue of the download loop
MainSkipsScalars(row, column) ==
    LET images == RowGet(row, column, List(<<>>))
    IN  ~Truthy(images) \/ images.t # "list"

MainSkips(row, column) == ~Truthy(RowGet(row, column, List(<<>>)))

\* one iteration of the download loop
DownloadRowWritingDoc ==
    /\ pc = "downloading"
    /\ i <= Len(rows)
    /\ IF MainSkips(rows[i], image_column)
       THEN /\ i' = i + 1
            /\ UNCHANGED <<pc, outcome, exitStatus, requests, attempts, files, doc,
                           docWrites>>
       ELSE \E net \in NetBehaviours :
            LET image_url == FirstImage(RowGet(rows[i], image_column, List(<<>>)))
                image_filename == GetImageFilename(image_url)
                r == DownloadImage(image_url, image_filename, files, net)
            IN  /\ files' = r.files
                /\ requests' = requests \o r.requests
                /\ attempts' = Append(attempts,
                                      [row |-> i, url |-> image_url,
                                       target |-> image_filename, result |-> r.result])
                /\ doc' = [exists |-> TRUE,
                           text |-> GenerateHtml(SubSeq(rows, 1, i), image_column, <<>>)]
                /\ docWrites' = docWrites + 1
                /\ IF r.result = "True"
                   THEN i' = i + 1 /\ UNCHANGED <<pc, outcome, exitStatus>>
                   ELSE Raise(r.result) /\ UNCHANGED i
    /\ UNCHANGED <<schema, image_column, rows, html, doc0, prevCall, lastCall,
                   decoded, refA, refB, nameA, nameB>>

DownloadRow ==
    /\ pc = "downloading"
    /\ i <= Len(rows)
    /\ IF MainSkips(rows[i], image_column)
       THEN /\ i' = i + 1
            /\ UNCHANGED <<pc, outcome, exitStatus, requests, attempts, files>>
       ELSE \E net \in NetBehaviours :
            LET image_url == FirstImage(RowGet(rows[i], image_column, List(<<>>)))
                image_filename == GetImageFilename(image_url)
                r == DownloadImage(image_url, image_filename, files, net)
            IN  /\ files' = r.files
                /\ requests' = requests \o r.requests
                /\ attempts' = Append(attempts,
                                      [row |-> i, url |-> image_url,
                                       target |-> image_filename, result |-> r.result])
                /\ IF r.result = "True"
                   THEN i' = i + 1 /\ UNCHANGED <<pc, outcome, exitStatus>>
                   ELSE Raise(r.result) /\ UNCHANGED i
    /\ UNCHANGED <<schema, image_column, rows, html, doc, doc0, docWrites,
                   prevCall, lastCall, decoded, refA, refB, nameA, nameB>>

\* generate_html(rows, image_column, all_columns) and HTML_FILE.write_text(html)
RenderAndWrite ==
    /\ pc = "downloading"
    /\ i > Len(rows)
    /\ html' = GenerateHtml(rows, image_column, AllColumns(SelectedTable(schema)))
    /\ doc' = [exists |-> TRUE, text |-> html']
    /\ docWrites' = docWrites + 1
    /\ pc' = "complete"
    /\ outcome' = "complete"
    /\ exitStatus' = 0
    /\ UNCHANGED <<requests, schema, image_column, rows, i, attempts, files, doc0,
                   prevCall, lastCall, decoded, refA, refB, nameA, nameB>>

Next ==
    \/ Authenticate
    \/ LoadMetadata
    \/ SelectTable
    \/ GetRows
    \/ DownloadRow
    \/ RenderAndWrite

Spec == Init /\ [][Next]_vars

(***************************************************************************)
(* download_image called repeatedly on one images directory.               *)
(***************************************************************************)
Targets == {GetImageFilename(u) : u \in Refs}

FileAt(dir, name) == IF name \in DOMAIN dir THEN dir[name] ELSE NoFile

InitDownload ==
    /\ pc = "calls"
    /\ outcome = "" /\ exitStatus = -1
    /\ requests = <<>>
    /\ schema = <<>> /\ image_column = NoColumn
    /\ rows = <<>> /\ i = 0 /\ attempts = <<>>
    /\ html = <<>>
    /\ files = EmptyDir
    /\ doc = NoDoc /\ doc0 = NoDoc /\ docWrites = 0
    /\ prevCall = NoCall /\ lastCall = NoCall
    /\ decoded = <<>> /\ refA = <<>> /\ refB = <<>> /\ nameA = <<>> /\ nameB = <<>>

DownloadImageCall ==
    /\ pc = "calls"
    /\ \E image_url \in Refs, output_path \in Targets, net \in NetBehaviours :
           LET r == DownloadImage(image_url, output_path, files, net)
           IN  /\ files' = r.files
               /\ prevCall' = lastCall
               /\ lastCall' = [url |-> image_url, target |-> output_path,
                               result |-> r.result, requests |-> r.requests,
                               existed |-> output_path \in DOMAIN files,
                               file |-> FileAt(r.files, output_path)]
    /\ UNCHANGED <<pc, outcome, exitStatus, requests, schema, image_column, rows, i,
                   attempts, html, doc, doc0, docWrites, decoded, refA, refB, nameA,
                   nameB>>

NextDownload == DownloadImageCall

SpecDownload == InitDownload /\ [][NextDownload]_vars

(***************************************************************************)
(* generate_html applied to one record.                                    *)
(***************************************************************************)
NamePool ==
    {<<"T", "i", "t", "l", "e">>, <<"N", "a", "m", "e">>, <<"S", "e", "r", "i", "e", "s", " ", "N", "a", "m", "e">>, <<"I", "n", "v", " ", "D", "a", "t", "e">>, <<"E", "d", "i", "t", "i", "o", "n", " ", "N", "o">>,
     <<"E", "d", "i", "t", "i", "o", "n", " ", "D", "e", "s", "c">>, <<"Y", "e", "a", "r">>}

ValuePool ==
    {Str(<<>>), Str(<<"S", "u", "n">>), Str(<<"M", "o", "o", "n">>), Str(<<"a", "<", "b", ">", "&", "\"", "c">>), Str(<<"2", "0", "2", "1", "-", "0", "7", "-", "0", "4">>)}

ImageItem == <<ImageCol, List(<<Ref1>>)>>

RenderRows ==
    {<<ImageItem>> \o items :
        items \in {s \in UNION {[1..n -> NamePool \X ValuePool] : n \in 0..MaxCols} :
                      \A j, k \in 1..Len(s) : s[j][1] = s[k][1] => j = k}}

InitRender ==
    /\ pc = "render"
    /\ outcome = "" /\ exitStatus = -1
    /\ requests = <<>>
    /\ schema = <<>> /\ image_column = ImageCol
    /\ \E row \in RenderRows : rows = <<row>>
    /\ i = 0 /\ attempts = <<>>
    /\ html = <<>>
    /\ files = EmptyDir
    /\ doc = NoDoc /\ doc0 = NoDoc /\ docWrites = 0
    /\ prevCall = NoCall /\ lastCall = NoCall
    /\ decoded = <<>> /\ refA = <<>> /\ refB = <<>> /\ nameA = <<>> /\ nameB = <<>>

GenerateHtmlCall ==
    /\ pc = "render"
    /\ html' = GenerateHtml(rows, image_column, <<>>)
    /\ pc' = "rendered"
    /\ UNCHANGED <<outcome, exitStatus, requests, schema, image_column, rows, i,
                   attempts, files, doc, doc0, docWrites, prevCall, lastCall, decoded,
                   refA, refB, nameA, nameB>>

NextRender == GenerateHtmlCall

SpecRender == InitRender /\ [][NextRender]_vars

(***************************************************************************)
(* get_image_filename applied to two references to one decoded path, which *)
(* differ in their percent-encoding, their host and their query string.    *)
(***************************************************************************)
DecodedPaths == {<<"/", "a", "/", "p", ".", "J", "P", "G">>, <<"/", "a", " ", "b", "/", "q">>, <<"/", "a", "/", ".", "h", "i", "d">>, <<"/", "d", ".", "x", "/">>, <<"/", "a", "/", "5", "%", "?", ".", "g", "i", "f">>}

Prefixes == {<<>>, <<"h", "t", "t", "p", "s", ":", "/", "/", "h", ".", "i", "o">>}
Queries == {<<>>, <<"?", "v", "=", "1">>, <<"#", "f">>}

UpperHexDigits == <<"0", "1", "2", "3", "4", "5", "6", "7", "8", "9", "A", "B", "C", "D", "E", "F">>

\* the characters that a path cannot hold unescaped
Reserved == {"%", "?", "#", ";"}

Escape(c, lower) ==
    LET digits == IF lower THEN HexDigits ELSE UpperHexDigits
    IN  <<"%", digits[(Ord[c] \div 16) + 1], digits[(Ord[c] % 16) + 1]>>

\* the path with the characters at the positions of mask percent-encoded
Encode(path, mask, lower) ==
    Concat([k \in 1..Len(path) |->
               IF k \in mask \/ path[k] \in Reserved
               THEN Escape(path[k], lower) ELSE <<path[k]>>])

\* the leading slash stays, so that the path still follows the host
Masks(path) == {m \in SUBSET (2..Len(path)) : Cardinality(m) <= MaxEncoded}

InitName ==
    /\ pc = "name"
    /\ outcome = "" /\ exitStatus = -1
    /\ requests = <<>>
    /\ schema = <<>> /\ image_column = ImageCol
    /\ i = 0 /\ attempts = <<>>
    /\ html = <<>>
    /\ files = EmptyDir
    /\ doc = NoDoc /\ doc0 = NoDoc /\ docWrites = 0
    /\ prevCall = NoCall /\ lastCall = NoCall
    /\ decoded \in DecodedPaths
    /\ \E prefix \in Prefixes, mask \in {{}, 2..Len(decoded)} :
           refA = prefix \o Encode(decoded, mask, FALSE)
    /\ \E prefix \in Prefixes, mask \in Masks(decoded), lower \in BOOLEAN,
          query \in Queries :
           refB = prefix \o Encode(decoded, mask, lower) \o query
    /\ \E v \in {List(<<refA>>), List(<<refA, refB>>), Str(refA)} :
           rows = << <<NameItem, <<ImageCol, v>> >> >>
    /\ nameA = <<>> /\ nameB = <<>>

\* the filename the download loop gives the image of the row, and the
\* filename of the other reference
NameForDownload ==
    /\ pc = "name"
    /\ nameA' = GetImageFilename(FirstImage(RowGet(rows[1], image_column, List(<<>>))))
    /\ nameB' = GetImageFilename(refB)
    /\ pc' = "named"
    /\ UNCHANGED <<outcome, exitStatus, requests, schema, image_column, rows, i,
                   attempts, files, html, doc, doc0, docWrites, prevCall, lastCall,
                   decoded, refA, refB>>

\* the card generate_html renders for the row
RenderNamed ==
    /\ pc = "named"
    /\ html' = GenerateHtml(rows, image_column, <<>>)
    /\ pc' = "named_rendered"
    /\ UNCHANGED <<outcome, exitStatus, requests, schema, image_column, rows, i,
                   attempts, files, doc, doc0, docWrites, prevCall, lastCall,
                   decoded, refA, refB, nameA, nameB>>

NextName == NameForDownload \/ RenderNamed

SpecName == InitName /\ [][NextName]_vars

(***************************************************************************)
(* Properties.                                                             *)
(***************************************************************************)
ImgSrc(filename) == <<"<", "i", "m", "g", " ", "s", "r", "c", "=", "\"", "i", "m", "a", "g", "e", "s", "/">> \o filename \o <<"\"", " ", "a", "l", "t", "=", "\"">>

CountSub(sub, s) ==
    Cardinality({k \in 1..(Len(s) - Len(sub) + 1) : SubSeq(s, k, k + Len(sub) - 1) = sub})

Ended == pc \in {"aborted", "returned", "complete"}

\* the record has an image: its image column is present and holds neither
\* None, nor an empty list, nor an empty string
HasImage(row) ==
    \E k \in 1..Len(row) :
        /\ row[k][1] = image_column
        /\ row[k][2] \notin {None, List(<<>>), Str(<<>>)}

ImageRows == {k \in 1..Len(rows) : HasImage(rows[k])}
AttemptedRows == {attempts[a].row : a \in 1..Len(attempts)}

Requested(api) == \E k \in 1..Len(requests) : requests[k].api = api

\* C1: a call of download_image that fails leaves no file at its target
\* path, so that a later call for the target does not skip the download.
C1_FailedDownloadLeavesNoFile ==
    (lastCall # NoCall /\ lastCall.result # "True")
        => lastCall.target \notin DOMAIN files

\* C2: when download_image fails for a row, the run that ends has still
\* attempted the download of every row that has an image, and has rendered
\* and written the document.
C2_DownloadFailureIsNonFatal ==
    (Ended /\ \E a \in 1..Len(attempts) : attempts[a].result # "True")
        => /\ ImageRows \subseteq AttemptedRows
           /\ pc = "complete"
           /\ docWrites = 1

\* C3: a call of download_image that follows a successful call with the
\* same reference and the same target path returns success, sends no
\* request and leaves the file as it was; the two calls make one transfer
\* when the target did not exist before the first of them, and never more.
Transfers(call) ==
    Cardinality({k \in 1..Len(call.requests) : call.requests[k].api = "download"})

SecondCall ==
    /\ prevCall # NoCall
    /\ prevCall.result = "True"
    /\ lastCall.url = prevCall.url
    /\ lastCall.target = prevCall.target

C3_IdempotentSkip ==
    SecondCall
        => /\ lastCall.result = "True"
           /\ lastCall.requests = <<>>
           /\ lastCall.file = prevCall.file
           /\ FileAt(files, lastCall.target) = prevCall.file
           /\ Transfers(prevCall) + Transfers(lastCall) <= 1
           /\ ~prevCall.existed => Transfers(prevCall) + Transfers(lastCall) = 1

C3_Witness ==
    /\ SecondCall
    /\ ~prevCall.existed
    /\ Transfers(prevCall) = 1
    /\ lastCall.existed

\* C4: the values inserted into the document are escaped: the document has
\* the markup it has when every markup-significant character of the values
\* is an ordinary one, and every & in it starts a character reference.
MarkupChars == {"<", ">", "\""}

Markup(s) == SelectSeq(s, LAMBDA c : c \in MarkupChars)

PlainText(s) == [k \in 1..Len(s) |-> IF s[k] \in MarkupChars \cup {"&"} THEN "x" ELSE s[k]]

PlainRow(row) ==
    [k \in 1..Len(row) |->
        IF row[k][2].t = "str" /\ row[k][1] # image_column
        THEN <<row[k][1], Str(PlainText(row[k][2].v))>>
        ELSE row[k]]

CharacterReferences == {<<"&", "a", "m", "p", ";">>, <<"&", "l", "t", ";">>, <<"&", "g", "t", ";">>, <<"&", "q", "u", "o", "t", ";">>, <<"&", "#", "x", "2", "7", ";">>}

C4_ValuesAreEscaped ==
    pc = "rendered"
        => /\ Markup(html)
                = Markup(GenerateHtml([k \in 1..Len(rows) |-> PlainRow(rows[k])],
                                      image_column, <<>>))
           /\ \A k \in 1..Len(html) :
                  html[k] = "&"
                      => \E e \in CharacterReferences :
                             SubSeq(html, k, k + Len(e) - 1) = e

\* The predicates of the five categories on a column name.
IsTitleColumn(key) == Contains(<<"t", "i", "t", "l", "e">>, Lower(key)) \/ Contains(<<"n", "a", "m", "e">>, Lower(key))
IsInventoryColumn(key) ==
    Contains(<<"i", "n", "v", "e", "n", "t", "o", "r", "y">>, Lower(key)) \/ Contains(<<"i", "n", "v">>, Lower(key))
IsSeriesColumn(key) ==
    Contains(<<"c", "o", "l", "l", "e", "c", "t", "i", "o", "n">>, Lower(key)) \/ Contains(<<"s", "e", "r", "i", "e", "s">>, Lower(key))
IsYearColumn(key) == Contains(<<"y", "e", "a", "r">>, Lower(key)) \/ Contains(<<"d", "a", "t", "e">>, Lower(key))
IsEditionColumn(key) ==
    Contains(<<"e", "d", "i", "t", "i", "o", "n">>, Lower(key)) /\ ~Contains(<<"d", "e", "s", "c">>, Lower(key))

\* the non-empty values of the columns of the record that satisfy P, in order
Matching(row, P(_)) == SelectSeq(row, LAMBDA item : P(item[1]) /\ item[2].v # <<>>)

YearOf(text) == IF Contains(<<"-">>, text) THEN Split(text, "-")[1] ELSE text

TitleLine(text) == <<"<", "d", "i", "v", " ", "c", "l", "a", "s", "s", "=", "\"", "a", "r", "t", "w", "o", "r", "k", "-", "t", "i", "t", "l", "e", "\"", ">">> \o text \o <<"<", "/", "d", "i", "v", ">">>
InventoryLine(text) == <<"<", "d", "i", "v", " ", "c", "l", "a", "s", "s", "=", "\"", "i", "n", "v", "-", "n", "u", "m", "b", "e", "r", "\"", ">">> \o text \o <<"<", "/", "d", "i", "v", ">">>
SeriesLine(text) == <<"<", "d", "i", "v", ">", "<", "s", "t", "r", "o", "n", "g", ">", "S", "e", "r", "i", "e", "s", ":", "<", "/", "s", "t", "r", "o", "n", "g", ">", " ">> \o text \o <<"<", "/", "d", "i", "v", ">">>
YearLine(text) == <<"<", "d", "i", "v", ">", "<", "s", "t", "r", "o", "n", "g", ">", "Y", "e", "a", "r", ":", "<", "/", "s", "t", "r", "o", "n", "g", ">", " ">> \o text \o <<"<", "/", "d", "i", "v", ">">>
EditionLine(text) == <<"<", "d", "i", "v", ">", "<", "s", "t", "r", "o", "n", "g", ">", "E", "d", "i", "t", "i", "o", "n", ":", "<", "/", "s", "t", "r", "o", "n", "g", ">", " ">> \o text \o <<"<", "/", "d", "i", "v", ">">>

\* the number of category predicates the column name satisfies
Categories(key) ==
    Cardinality({c \in {"title", "inventory", "series", "year", "edition"} :
        \/ c = "title" /\ IsTitleColumn(key)
        \/ c = "inventory" /\ IsInventoryColumn(key)
        \/ c = "series" /\ IsSeriesColumn(key)
        \/ c = "year" /\ IsYearColumn(key)
        \/ c = "edition" /\ IsEditionColumn(key)})

\* C5: the title rendered is the value of the first column, in the order
\* of the record, whose name matches the title predicate and whose value is
\* not empty, and "Untitled" when there is none; inventory, series, year
\* and edition are the first match of their predicates likewise (stated
\* here for the records no column of which matches two predicates).
C5_FirstMatchWins ==
    pc = "rendered"
        => LET row == rows[1]
               titles == Matching(row, IsTitleColumn)
               invs == Matching(row, IsInventoryColumn)
               sers == Matching(row, IsSeriesColumn)
               years == Matching(row, IsYearColumn)
               eds == Matching(row, IsEditionColumn)
           IN  /\ Contains(TitleLine(IF titles = <<>> THEN <<"U", "n", "t", "i", "t", "l", "e", "d">>
                                     ELSE titles[1][2].v), html)
               /\ (\A k \in 1..Len(row) : Categories(row[k][1]) <= 1)
                      => /\ invs # <<>> => Contains(InventoryLine(invs[1][2].v), html)
                         /\ sers # <<>> => Contains(SeriesLine(sers[1][2].v), html)
                         /\ years # <<>>
                                => Contains(YearLine(YearOf(years[1][2].v)), html)
                         /\ eds # <<>> => Contains(EditionLine(eds[1][2].v), html)

\* C9: the categories are extracted independently: a category has a line
\* in the card exactly when some non-empty column matches its predicate,
\* whatever other predicates the name of that column matches, and the line
\* shows the value of such a column.
Shows(line(_), candidates, html_) ==
    IF candidates = <<>> THEN ~Contains(line(<<>>), html_)
    ELSE \E k \in 1..Len(candidates) : Contains(line(candidates[k]), html_)

ValuesOf(items) == [k \in 1..Len(items) |-> items[k][2].v]

SeriesOpen(text) == <<"<", "d", "i", "v", ">", "<", "s", "t", "r", "o", "n", "g", ">", "S", "e", "r", "i", "e", "s", ":", "<", "/", "s", "t", "r", "o", "n", "g", ">", " ">> \o text
YearOpen(text) == <<"<", "d", "i", "v", ">", "<", "s", "t", "r", "o", "n", "g", ">", "Y", "e", "a", "r", ":", "<", "/", "s", "t", "r", "o", "n", "g", ">", " ">> \o text
EditionOpen(text) == <<"<", "d", "i", "v", ">", "<", "s", "t", "r", "o", "n", "g", ">", "E", "d", "i", "t", "i", "o", "n", ":", "<", "/", "s", "t", "r", "o", "n", "g", ">", " ">> \o text
InventoryOpen(text) == <<"<", "d", "i", "v", " ", "c", "l", "a", "s", "s", "=", "\"", "i", "n", "v", "-", "n", "u", "m", "b", "e", "r", "\"", ">">> \o text

C9_CategoriesAreIndependent ==
    pc = "rendered"
        => LET row == rows[1]
               years == ValuesOf(Matching(row, IsYearColumn))
           IN  /\ Shows(InventoryOpen, ValuesOf(Matching(row, IsInventoryColumn)), html)
               /\ Shows(SeriesOpen, ValuesOf(Matching(row, IsSeriesColumn)), html)
               /\ Shows(YearOpen, [k \in 1..Len(years) |-> YearOf(years[k])], html)
               /\ Shows(EditionOpen, ValuesOf(Matching(row, IsEditionColumn)), html)

\* C6: no download is attempted for a record without an image; the
\* document of a run that completes has one card for every record that has
\* an image and no other card, and the records rendered are the records a
\* download was attempted for.
C6_SkipOnNoImage ==
    /\ AttemptedRows \subseteq ImageRows
    /\ pc = "complete"
           => /\ CountSub(CardOpen, doc.text) = Cardinality(ImageRows)
              /\ AttemptedRows = ImageRows
              /\ \A a \in 1..Len(attempts) :
                     Contains(ImgSrc(attempts[a].target), doc.text)

C6_Witness ==
    /\ pc = "complete"
    /\ ImageRows # {}
    /\ \E k \in 1..Len(rows) : k \notin ImageRows

\* C7: when the schema has no table of the configured name, or the table of
\* that name has no column of type image, the run ends without completing,
\* with a configuration error, having requested no rows, attempted no
\* download and written no document.
TablesNamed == {k \in 1..Len(schema) : schema[k].name = TABLE_NAME}

NoImageColumn ==
    /\ TablesNamed # {}
    /\ LET table == schema[CHOOSE k \in TablesNamed : \A j \in TablesNamed : k <= j]
       IN  \A c \in 1..Len(table.columns) : table.columns[c].type # "image"

MetadataLoaded ==
    /\ Len(requests) >= 2
    /\ ~(pc = "aborted" /\ outcome = "HTTPError" /\ Len(requests) = 2)

C7_ConfigErrorIsFatal ==
    (MetadataLoaded /\ pc # "metadata" /\ (TablesNamed = {} \/ NoImageColumn))
        => /\ pc \in {"aborted", "returned"}
           /\ outcome \in {"StopIteration", "no_image_column"}
           /\ outcome # "complete"
           /\ ~Requested("rows")
           /\ attempts = <<>>
           /\ docWrites = 0
           /\ doc = doc0

C7_Witness ==
    /\ MetadataLoaded
    /\ NoImageColumn
    /\ pc = "returned"
    /\ outcome = "no_image_column"

\* C8: the document is written at most once in a run, and only when the
\* token, the metadata and the rows have been requested, the download loop
\* has passed every row and the whole document has been rendered in
\* memory; until then the document is the one the run found.
C8_DocumentWrittenLast ==
    /\ docWrites <= 1
    /\ docWrites = 1
           => /\ pc = "complete"
              /\ Requested("app-access-token") /\ Requested("metadata")
              /\ Requested("rows")
              /\ i = Len(rows) + 1
              /\ AttemptedRows = ImageRows
              /\ \A a \in 1..Len(attempts) : attempts[a].result = "True"
              /\ doc.exists /\ doc.text = html
              /\ SubSeq(html, Len(html) - Len(HtmlFoot) + 1, Len(html)) = HtmlFoot
    /\ pc # "complete" => doc = doc0

C8_Witness ==
    /\ pc = "aborted"
    /\ attempts # <<>>
    /\ doc0.exists
    /\ doc = doc0

\* C10: two references to one decoded path, however they are encoded and
\* whatever their host and query string, get the same filename: the first
\* 12 digits of the hash of the decoded path, followed by the suffix of the
\* last segment of the path as it is written; and the card of a row refers
\* to the image by the filename the download loop gave it.
LastSegment(path) ==
    LET ends == {k \in 1..Len(path) : path[k] # "/"}
        last == CHOOSE k \in ends : \A j \in ends : j <= k
        stripped == SubSeq(path, 1, last)
    IN  IF ends = {} THEN <<>> ELSE Tail_(stripped, RFind("/", stripped) + 1)

SuffixOf(segment) ==
    LET dots == {k \in 2..(Len(segment) - 1) : segment[k] = "."}
    IN  IF dots = {} THEN <<>>
        ELSE Tail_(segment, CHOOSE k \in dots : \A j \in dots : j <= k)

C10_FilenameOfDecodedPath ==
    /\ pc \in {"named", "named_rendered"}
           => /\ nameA = nameB
              /\ SubSeq(nameA, 1, 12) = SubSeq(Md5HexDigest(decoded), 1, 12)
              /\ Tail_(nameA, 13) = SuffixOf(LastSegment(decoded))
    /\ pc = "named_rendered" => Contains(ImgSrc(nameA), html)

C10_Witness ==
    /\ pc = "named_rendered"
    /\ refA # refB
    /\ Contains(<<"%">>, refB)
    /\ Tail_(nameA, 13) = <<".", "J", "P", "G">>

=============================================================================
